---- MODULE Spec2Model ----
(***************************************************************************)
(* Model of the Strategy grid of the heads-up push-or-fold solver          *)
(* (src/strategy.cpp) and of the index convention documented in the header *)
(* of src/headsup_nash.cpp.                                                *)
(*                                                                         *)
(* A double is abstracted to an integer: the code only copies values, it   *)
(* never computes with them.  0 and 1 are the probabilities 0.0 and 1.0;   *)
(* every other integer stands for a double outside [0,1].                  *)
(***************************************************************************)
EXTENDS Integers, FiniteSets, Sequences, TLC

VARIABLES
    strategy,   \* the member double strategy[13][13]
    value,      \* the argument the object was constructed with
    call,       \* the call in progress on the object, with its arguments
    ret,        \* what the last call returned: <<>> void, <<v>>, <<r1, r2>>
    ncalls,     \* calls completed on the object
    clean,      \* so far every call had arguments the contract allows and
                \* every value passed in was a probability
    card1, card2, pc,       \* the index specification: the hand, the position
    regretSum, sigma, iter  \* the solver specification

vars == <<strategy, value, call, ret, ncalls, clean,
          card1, card2, pc, regretSum, sigma, iter>>

gridVars == <<strategy, value, call, ncalls, clean>>
handVars == <<card1, card2, pc>>
solverVars == <<regretSum, sigma, iter>>

----------------------------------------------------------------------------
(* Bounds of the model.                                                    *)

\* calls made on one Strategy object
MaxCalls == 2

----------------------------------------------------------------------------
(* Program constants.                                                      *)

\* strategy[13][13]: the loops of the constructor
NumRanks == 13
\* cards are 1..52 (header of headsup_nash.cpp)
NumCards == 52
\* (card - 1) / 4 and (card - 1) % 4
NumSuits == 4

Ranks == 0..(NumRanks - 1)
Cards == 1..NumCards
\* the doubles of the model: 0.0, 1.0 and one value that is no probability
Values == {0, 1, 2}

\* a probability: 0.0 <= v <= 1.0
IsProb(v) == v >= 0 /\ v <= 1

\* C++ integer division truncates toward zero; % takes the dividend's sign
CDiv(a, b) == IF a >= 0 THEN a \div b ELSE 0 - ((0 - a) \div b)
CMod(a, b) == a - b * CDiv(a, b)

Max(a, b) == IF a >= b THEN a ELSE b
Min(a, b) == IF a <= b THEN a ELSE b

----------------------------------------------------------------------------
(* Strategy::get_index                                                     *)

GetIndexNoOrder(c1, c2) ==
    LET v1 == CDiv(c1 - 1, NumSuits)
        v2 == CDiv(c2 - 1, NumSuits)
    IN  <<v1, v2>>

GetIndexRankOnly(c1, c2) ==
    LET v1 == CDiv(c1 - 1, NumSuits)
        v2 == CDiv(c2 - 1, NumSuits)
    IN  <<Max(v1, v2), Min(v1, v2)>>

GetIndex(c1, c2) ==
    LET v1 == CDiv(c1 - 1, NumSuits)
        v2 == CDiv(c2 - 1, NumSuits)
    IN  IF v1 = v2 THEN <<v1, v2>>
        ELSE LET s1 == CMod(c1 - 1, NumSuits)
                 s2 == CMod(c2 - 1, NumSuits)
             IN  IF s1 = s2 THEN <<Max(v1, v2), Min(v1, v2)>>
                 ELSE <<Min(v1, v2), Max(v1, v2)>>

----------------------------------------------------------------------------
(* The array double strategy[13][13] and its subscripting.                 *)

InGrid(r, c) == r \in Ranks /\ c \in Ranks

\* offset of strategy[r][c] in the row-major layout of the array
Flat(r, c) == NumRanks * r + c
InObject(r, c) == Flat(r, c) >= 0 /\ Flat(r, c) < NumRanks * NumRanks

\* strategy[r][c] = v.  A subscript outside 0..12 is undefined behaviour:
\* the store lands on the cell the offset aliases when the offset is inside
\* the array, or outside the grid (no cell changes).
Store(mem, r, c, v) ==
    IF InGrid(r, c) THEN {[mem EXCEPT ![r][c] = v]}
    ELSE {mem} \cup
         (IF InObject(r, c)
          THEN {[mem EXCEPT ![Flat(r, c) \div NumRanks][Flat(r, c) % NumRanks] = v]}
          ELSE {})

\* the value of strategy[r][c]; indeterminate for a subscript outside 0..12
Load(mem, r, c) ==
    IF InGrid(r, c) THEN {mem[r][c]} ELSE Values

----------------------------------------------------------------------------
(* Strategy::Strategy                                                      *)

\* the indeterminate contents of the member before the constructor body runs
Garbage ==
    {[i \in Ranks |-> [j \in Ranks |-> g]] : g \in Values}

ConstructorShortLoop(mem, v) ==
    [i \in Ranks |-> [j \in Ranks |->
        IF i < NumRanks - 1 /\ j < NumRanks - 1 THEN v ELSE mem[i][j]]]

Constructor(mem, v) ==
    [i \in Ranks |-> [j \in Ranks |->
        IF i < NumRanks /\ j < NumRanks THEN v ELSE mem[i][j]]]

----------------------------------------------------------------------------
(* Strategy::get_strategy and Strategy::set_strategy as functions of the   *)
(* grid: the set of values a call can return, the set of grids it can      *)
(* leave.                                                                  *)

GetStrategySwapped(mem, c1, c2, is_index_rep) ==
    IF is_index_rep THEN Load(mem, c1, c2)
    ELSE LET index == GetIndex(c1, c2)
         IN  Load(mem, index[2], index[1])

GetStrategy(mem, c1, c2, is_index_rep) ==
    IF is_index_rep THEN Load(mem, c1, c2)
    ELSE LET index == GetIndex(c1, c2)
         IN  Load(mem, index[1], index[2])

SetStrategyBothCells(mem, c1, c2, v, is_index_rep) ==
    IF is_index_rep THEN Store(mem, c1, c2, v)
    ELSE LET index == GetIndex(c1, c2)
         IN  {[[mem EXCEPT ![index[1]][index[2]] = v]
                    EXCEPT ![index[2]][index[1]] = v]}

SetStrategyStoresCard(mem, c1, c2, v, is_index_rep) ==
    IF is_index_rep THEN Store(mem, c1, c2, c2)
    ELSE LET index == GetIndex(c1, c2)
         IN  Store(mem, index[1], index[2], c2)

SetStrategyRaw(mem, c1, c2, v, is_index_rep) ==
    Store(mem, c1, c2, v)

SetStrategy(mem, c1, c2, v, is_index_rep) ==
    IF is_index_rep THEN Store(mem, c1, c2, v)
    ELSE LET index == GetIndex(c1, c2)
         IN  Store(mem, index[1], index[2], v)

\* the subscripts the two accessors apply to the member
Subscript(c1, c2, is_index_rep) ==
    IF is_index_rep THEN <<c1, c2>> ELSE GetIndex(c1, c2)

\* the arguments the contract allows
InRange(c1, c2, is_index_rep) ==
    IF is_index_rep THEN c1 \in Ranks /\ c2 \in Ranks
    ELSE c1 \in Cards /\ c2 \in Cards /\ c1 # c2

\* some argument outside 1..52 (specific) or outside 0..12 (index)
OutOfRange(c1, c2, is_index_rep) ==
    IF is_index_rep THEN ~(c1 \in Ranks /\ c2 \in Ranks)
    ELSE ~(c1 \in Cards /\ c2 \in Cards)

----------------------------------------------------------------------------
(* The grid specification: one Strategy object and the calls made on it.   *)
(* A caller picks a call and its arguments (Invoke); the call then runs    *)
(* to completion as one step.                                              *)

\* arguments of the calls in the specific representation: 2c 2d 3c 3d, and
\* two integers that are no card
CardArgs == {0, 1, 2, NumSuits + 1, NumSuits + 2, NumCards + 1}
\* arguments of the calls in the index representation
IdxArgs == {0 - 1, 0, 1, NumRanks}

Args(is_index_rep) == IF is_index_rep THEN IdxArgs ELSE CardArgs

NoCall == [op |-> "none", c1 |-> 0, c2 |-> 0, v |-> 0, rep |-> FALSE]

IdleHand == card1 = 0 /\ card2 = 0 /\ pc = "idle"
IdleSolver == regretSum = <<>> /\ sigma = <<>> /\ iter = 0

Init ==
    /\ \E mem \in Garbage, v \in Values :
          /\ strategy = Constructor(mem, v)
          /\ value = v
          /\ clean = IsProb(v)
    /\ call = NoCall
    /\ ret = <<>>
    /\ ncalls = 0
    /\ IdleHand
    /\ IdleSolver

InvokeSet ==
    /\ call.op = "none"
    /\ ncalls < MaxCalls
    /\ \E rep \in BOOLEAN : \E c1 \in Args(rep), c2 \in Args(rep), v \in Values :
          call' = [op |-> "set", c1 |-> c1, c2 |-> c2, v |-> v, rep |-> rep]
    /\ ret' = <<>>
    /\ UNCHANGED <<strategy, value, ncalls, clean, handVars, solverVars>>

InvokeGet ==
    /\ call.op = "none"
    /\ ncalls < MaxCalls
    /\ \E rep \in BOOLEAN : \E c1 \in Args(rep), c2 \in Args(rep) :
          call' = [op |-> "get", c1 |-> c1, c2 |-> c2, v |-> 0, rep |-> rep]
    /\ ret' = <<>>
    /\ UNCHANGED <<strategy, value, ncalls, clean, handVars, solverVars>>

InvokeIndex ==
    /\ call.op = "none"
    /\ ncalls < MaxCalls
    /\ \E c1 \in CardArgs, c2 \in CardArgs :
          call' = [op |-> "index", c1 |-> c1, c2 |-> c2, v |-> 0, rep |-> FALSE]
    /\ ret' = <<>>
    /\ UNCHANGED <<strategy, value, ncalls, clean, handVars, solverVars>>

SetStrategyCall ==
    /\ call.op = "set"
    /\ strategy' \in SetStrategy(strategy, call.c1, call.c2, call.v, call.rep)
    /\ ret' = <<>>
    /\ clean' = (clean /\ InRange(call.c1, call.c2, call.rep) /\ IsProb(call.v))
    /\ ncalls' = ncalls + 1
    /\ call' = NoCall
    /\ UNCHANGED <<value, handVars, solverVars>>

GetStrategyCall ==
    /\ call.op = "get"
    /\ \E r \in GetStrategy(strategy, call.c1, call.c2, call.rep) : ret' = <<r>>
    /\ clean' = (clean /\ InRange(call.c1, call.c2, call.rep))
    /\ ncalls' = ncalls + 1
    /\ call' = NoCall
    /\ UNCHANGED <<strategy, value, handVars, solverVars>>

GetIndexCall ==
    /\ call.op = "index"
    /\ ret' = GetIndex(call.c1, call.c2)
    /\ clean' = (clean /\ InRange(call.c1, call.c2, FALSE))
    /\ ncalls' = ncalls + 1
    /\ call' = NoCall
    /\ UNCHANGED <<strategy, value, handVars, solverVars>>

Next ==
    \/ InvokeSet
    \/ InvokeGet
    \/ InvokeIndex
    \/ SetStrategyCall
    \/ GetStrategyCall
    \/ GetIndexCall

Spec == Init /\ [][Next]_vars

----------------------------------------------------------------------------
(* The index specification: get_index applied to each starting hand of the *)
(* deck.                                                                   *)

IdleGrid ==
    /\ strategy = Constructor(CHOOSE mem \in Garbage : TRUE, 1)
    /\ value = 1
    /\ call = NoCall
    /\ ncalls = 0
    /\ clean = TRUE

InitIndex ==
    /\ card1 \in Cards
    /\ card2 \in Cards
    /\ card1 # card2
    /\ pc = "call"
    /\ ret = <<>>
    /\ IdleGrid
    /\ IdleSolver

CallGetIndex ==
    /\ pc = "call"
    /\ ret' = GetIndex(card1, card2)
    /\ pc' = "done"
    /\ UNCHANGED <<card1, card2, gridVars, solverVars>>

NextIndex == CallGetIndex

SpecIndex == InitIndex /\ [][NextIndex]_vars

----------------------------------------------------------------------------
(* Hands of the deck.                                                      *)

Rank(c) == (c - 1) \div NumSuits
Suit(c) == (c - 1) % NumSuits

\* the specific hands, in either card order
AllHands == {h \in Cards \X Cards : h[1] # h[2]}

\* the object is between calls, after construction or a set_strategy call
AfterSet == call.op = "none" /\ ret = <<>>

\* C3: after construction and after every set_strategy call, for every
\* specific hand of distinct cards of the deck, get_strategy in the specific representation returns what
\* get_strategy in the index representation returns for get_index of the hand
C3_SpecificAgreesWithIndex ==
    AfterSet =>
    \A h \in AllHands :
        LET index == GetIndex(h[1], h[2])
        IN  GetStrategy(strategy, h[1], h[2], FALSE)
              = GetStrategy(strategy, index[1], index[2], TRUE)

\* a fixed hand of the class of (c1, c2): the class is the two ranks and
\* whether the hand is a pair, suited or unsuited
ClassHand(c1, c2) ==
    LET lo == NumSuits * Min(Rank(c1), Rank(c2))
        hi == NumSuits * Max(Rank(c1), Rank(c2))
    IN  IF Rank(c1) = Rank(c2) THEN <<lo + 1, lo + 2>>
        ELSE IF Suit(c1) = Suit(c2) THEN <<lo + 1, hi + 1>>
        ELSE <<lo + 1, hi + 2>>

\* the hands made of a card of the rank of c1 and a card of the rank of c2
SameRanks(c1, c2) ==
    LET of1 == {c \in Cards : Rank(c) = Rank(c1)}
        of2 == {c \in Cards : Rank(c) = Rank(c2)}
    IN  {h \in (of1 \X of2) \cup (of2 \X of1) : h[1] # h[2]}

\* the hands strategically identical to (c1, c2)
SameClass(c1, c2) ==
    {h \in SameRanks(c1, c2) : ClassHand(h[1], h[2]) = ClassHand(c1, c2)}

C4_State ==
    AfterSet =>
    \A h \in AllHands :
        LET k == ClassHand(h[1], h[2])
        IN  GetStrategy(strategy, h[1], h[2], FALSE)
              = GetStrategy(strategy, k[1], k[2], FALSE)

C4_Step ==
    (call.op = "set" /\ ~call.rep /\ InRange(call.c1, call.c2, FALSE)) =>
    \A h \in SameClass(call.c1, call.c2) :
        GetStrategy(strategy', h[1], h[2], FALSE) = {call.v}

C3_Witness ==
    /\ AfterSet
    /\ ncalls > 0
    /\ GetStrategy(strategy, 1, 5, FALSE) # GetStrategy(strategy, 1, 6, FALSE)

\* C4: hands of the same two ranks and the same suitedness, in either card
\* order, read the same value after construction and after every
\* set_strategy call (each hand reads
\* what the fixed hand of its class reads), and a value set through one hand
\* is the value read through every hand of its class
C4_IdenticalHandsShareValue == [] C4_State /\ [][C4_Step]_vars

C4_Witness ==
    /\ AfterSet
    /\ ncalls > 0
    /\ value = 0
    /\ GetStrategy(strategy, 2, 6, FALSE) = {1}
    /\ GetStrategy(strategy, 5, 1, FALSE) = {1}
    /\ GetStrategy(strategy, 6, 1, FALSE) = {0}

\* C5 as stated: in every state every cell of the grid is a probability,
\* and so is what every hand of the deck reads after construction and after
\* every set_strategy call
C5_EveryCellProbability ==
    /\ \A i \in Ranks, j \in Ranks :
          \A r \in GetStrategy(strategy, i, j, TRUE) : IsProb(r)
    /\ AfterSet =>
          \A h \in AllHands :
              \A r \in GetStrategy(strategy, h[1], h[2], FALSE) : IsProb(r)

\* C5 (amended): when the value given to the constructor and every value
\* given to set_strategy is a probability, and every call had in-range
\* arguments, every cell of the grid, read in either representation, is a
\* probability
C5_ProbabilitiesPreserved == clean => C5_EveryCellProbability

C5_Witness ==
    /\ clean
    /\ AfterSet
    /\ ncalls = MaxCalls
    /\ value = 1
    /\ strategy[0][0] = 0
    /\ strategy[0][1] = 0

\* C6: before any call, every cell read in the index representation and
\* every hand read in the specific representation gives the value the
\* object was constructed with
C6_UniformAfterConstruction ==
    (ncalls = 0 /\ call.op = "none") =>
        /\ \A i \in Ranks, j \in Ranks :
              GetStrategy(strategy, i, j, TRUE) = {value}
        /\ \A h \in AllHands :
              GetStrategy(strategy, h[1], h[2], FALSE) = {value}

C6_Witness ==
    /\ ncalls = 0
    /\ call.op = "none"
    /\ value = 1
    /\ GetStrategy(strategy, NumRanks - 1, NumRanks - 1, TRUE) = {1}

\* the subscripts a call applies to the member
CallSubscript == Subscript(call.c1, call.c2, call.rep)

\* C7: a get_strategy or set_strategy call with an argument out of range
\* accesses no location outside the grid and leaves every cell unchanged
C7_OutOfRangeRejected ==
    [][(call.op \in {"set", "get"} /\ OutOfRange(call.c1, call.c2, call.rep)) =>
          /\ strategy' = strategy
          /\ InGrid(CallSubscript[1], CallSubscript[2])]_vars

\* C9: right after set_strategy(a, b, v, rep) with in-range arguments,
\* get_strategy(a, b, rep) returns v, and after a set in the specific
\* representation so does get_strategy in the index representation at
\* get_index(a, b)
C9_SetGetRoundTrip ==
    [][(call.op = "set" /\ InRange(call.c1, call.c2, call.rep)) =>
          /\ GetStrategy(strategy', call.c1, call.c2, call.rep) = {call.v}
          /\ ~call.rep =>
                LET index == GetIndex(call.c1, call.c2)
                IN  GetStrategy(strategy', index[1], index[2], TRUE) = {call.v}]_vars

C9_Witness ==
    /\ AfterSet
    /\ clean
    /\ ncalls > 0
    /\ strategy[1][1] # value

\* the hands of the ranks of (c1, c2) that are not of its class
OtherClass(c1, c2) == SameRanks(c1, c2) \ SameClass(c1, c2)

C10_SetFrame ==
    (call.op = "set" /\ InRange(call.c1, call.c2, call.rep)) =>
        /\ strategy'[CallSubscript[1]][CallSubscript[2]] = call.v
        /\ \A i \in Ranks, j \in Ranks :
              <<i, j>> # CallSubscript => strategy'[i][j] = strategy[i][j]
        /\ ~call.rep =>
              \A h \in OtherClass(call.c1, call.c2) :
                  GetStrategy(strategy', h[1], h[2], FALSE)
                    = GetStrategy(strategy, h[1], h[2], FALSE)

C10_ReadFrame ==
    call.op \in {"get", "index"} => strategy' = strategy

\* C10: set_strategy with in-range arguments assigns the addressed cell (in
\* the specific representation, the cell get_index names) and leaves every
\* other cell as it was; a set through a suited hand leaves what the
\* unsuited hands of the same ranks read unchanged, and conversely;
\* get_strategy and get_index change no cell
C10_Frame == [][C10_SetFrame /\ C10_ReadFrame]_vars

C10_Witness ==
    /\ AfterSet
    /\ clean
    /\ ncalls = 1
    /\ strategy[1][0] # value
    /\ \A i \in Ranks, j \in Ranks :
          <<i, j>> # <<1, 0>> => strategy[i][j] = value

----------------------------------------------------------------------------
(* Claims of the index specification.                                      *)

HandKind(c1, c2) ==
    IF Rank(c1) = Rank(c2) THEN "pair"
    ELSE IF Suit(c1) = Suit(c2) THEN "suited" ELSE "unsuited"

\* C1: get_index of a hand of distinct cards returns (r1, r2) with r1 = r2
\* exactly for a pocket pair, r1 < r2 exactly for a suited hand, r1 > r2
\* exactly for an unsuited hand; the hand (7, 52) maps to (12, 1)
C1_DocumentedConvention ==
    pc = "done" =>
        /\ (ret[1] = ret[2]) <=> (HandKind(card1, card2) = "pair")
        /\ (ret[1] < ret[2]) <=> (HandKind(card1, card2) = "suited")
        /\ (ret[1] > ret[2]) <=> (HandKind(card1, card2) = "unsuited")
        /\ (card1 = 7 /\ card2 = 52) => ret = <<12, 1>>

\* the 1326 unordered pairs of distinct cards
Combos == {h \in Cards \X Cards : h[1] < h[2]}

\* the image of get_index, and the hands mapped to one index pair
Image == {GetIndex(h[1], h[2]) : h \in Combos}
ImageOf(kind) ==
    {GetIndex(h[1], h[2]) : h \in {g \in Combos : HandKind(g[1], g[2]) = kind}}
PreImage(index) == {h \in Combos : GetIndex(h[1], h[2]) = index}

\* specific hands of one class: C(4,2) pairs, 4 suited, 4 * 3 unsuited
ClassSize(kind) ==
    IF kind = "pair" THEN 6 ELSE IF kind = "suited" THEN 4 ELSE 12

\* C2: get_index maps each of the 1326 hands into [0,12] x [0,12]; the hands
\* mapped to the index pair of a hand are exactly 6 pairs, 4 suited hands or
\* 12 unsuited hands, all of the hand's kind; the image has 169 values: 13
\* of pairs, 78 of suited hands, 78 of unsuited hands
C2_ClassSizes ==
    pc = "done" =>
        /\ Cardinality(Combos) = 1326
        /\ ret \in Ranks \X Ranks
        /\ Cardinality(PreImage(ret)) = ClassSize(HandKind(card1, card2))
        /\ \A h \in PreImage(ret) :
              HandKind(h[1], h[2]) = HandKind(card1, card2)
        /\ Cardinality(Image) = 169
        /\ Cardinality(ImageOf("pair")) = 13
        /\ Cardinality(ImageOf("suited")) = 78
        /\ Cardinality(ImageOf("unsuited")) = 78

C2_Witness ==
    /\ pc = "done"
    /\ card1 = 7
    /\ card2 = 52
    /\ Cardinality(PreImage(ret)) = 12

----------------------------------------------------------------------------
(* The solver specification: regret matching over the iterations of the    *)
(* solver.  src/headsup_nash.cpp declares the actions and the iteration    *)
(* count and stops there; the update is modelled from the design document. *)
(* A probability is a fraction: sigma[seat][k] = <<push, fold, den>> gives *)
(* PUSH the probability push/den and FOLD the probability fold/den.        *)

\* iterations of the solver
MaxIter == 2

Seats == {"button", "bigblind"}
Actions == {"PUSH", "FOLD"}
\* the index pairs the deals of the model fall on
DealtClasses == {<<0, 0>>, <<1, 0>>}
\* what one iteration can add to the accumulated regret of an action
RegretDeltas == {0 - 1, 2}

RegretMatchingNoClamp(rPush, rFold) ==
    IF rPush + rFold > 0 THEN <<rPush, rFold, rPush + rFold>>
    ELSE <<1, 1, 2>>

\* push probability proportional to the positive part of the PUSH regret
\* against that of the FOLD regret; uniform when neither is positive
RegretMatching(rPush, rFold) ==
    LET p == Max(rPush, 0)
        f == Max(rFold, 0)
    IN  IF p + f > 0 THEN <<p, f, p + f>> ELSE <<1, 1, 2>>

InitSolver ==
    /\ regretSum = [s \in Seats |-> [k \in DealtClasses |-> [a \in Actions |-> 0]]]
    /\ sigma = [s \in Seats |-> [k \in DealtClasses |-> <<1, 0, 1>>]]
    /\ iter = 0
    /\ ret = <<>>
    /\ IdleGrid
    /\ IdleHand

\* one iteration: a class is dealt to each seat, the regret of each action
\* of the dealt class is accumulated, the strategy of the dealt class is
\* matched to the accumulated regret
Iterate ==
    /\ iter < MaxIter
    /\ \E dealt \in [Seats -> DealtClasses],
          delta \in [Seats -> [Actions -> RegretDeltas]] :
          LET regret == [s \in Seats |->
                  [regretSum[s] EXCEPT ![dealt[s]] =
                      [a \in Actions |-> @[a] + delta[s][a]]]]
          IN  /\ regretSum' = regret
              /\ sigma' = [s \in Seats |->
                     [sigma[s] EXCEPT ![dealt[s]] =
                         RegretMatching(regret[s][dealt[s]]["PUSH"],
                                        regret[s][dealt[s]]["FOLD"])]]
    /\ iter' = iter + 1
    /\ UNCHANGED <<gridVars, ret, handVars>>

NextSolver == Iterate

SpecSolver == InitSolver /\ [][NextSolver]_vars

\* C8: after any number of iterations, for each seat and each index pair,
\* the probabilities of PUSH and of FOLD are non-negative and sum to 1
C8_StrategyIsDistribution ==
    \A s \in Seats, k \in DealtClasses :
        /\ sigma[s][k][3] > 0
        /\ sigma[s][k][1] >= 0
        /\ sigma[s][k][2] >= 0
        /\ sigma[s][k][1] + sigma[s][k][2] = sigma[s][k][3]

C8_Witness ==
    /\ iter = MaxIter
    /\ regretSum["button"][<<1, 0>>]["PUSH"] > 0
    /\ regretSum["button"][<<1, 0>>]["FOLD"] < 0
    /\ sigma["button"][<<1, 0>>] = <<regretSum["button"][<<1, 0>>]["PUSH"], 0,
                                     regretSum["button"][<<1, 0>>]["PUSH"]>>

====
